---- MODULE Spec2Model ----
(***************************************************************************)
(* Buffer pool manager (BufferPoolManagerInstance), its LRU-K replacer     *)
(* (LRUKReplacer) and its page table (ExtendibleHashTable<page_id_t,       *)
(* frame_id_t>).  Every public method of the pool runs under latch_        *)
(* (std::scoped_lock at its first line), so one call is one atomic step.   *)
(* Nested calls (FindEmptyFrameid, the replacer's and the page table's     *)
(* methods) are operators on records that return the callee's new state.   *)
(***************************************************************************)
EXTENDS Integers, Sequences, FiniteSets, TLC

\* ------------------------------------------------------------------ bounds
PoolSize == 1          \* pool_size of the pool of Spec: number of frames
MaxPageId == 2         \* page ids used by the clients: 0..MaxPageId
MaxPin == 2            \* cap on a frame's pin_count (number of concurrent pinners)
BucketSize == 1        \* bucket_size_ of the page table

ReplacerK == 2         \* replacer_k
MaxDepth == 3          \* cap on global_depth_ of a page table called directly
NumThreads == 2        \* threads calling the page table at the same time

INVALID_PAGE_ID == -1
Null == -1             \* nullptr returned by NewPgImp / FetchPgImp
Hang == -2             \* the call never returns
Thrown == -3           \* the call ends by an exception
NotFound == -1         \* Find(...) = false

PageIds == 0 .. MaxPageId
Bytes == {0, 1}        \* contents of a page buffer; 0 is the zeroed buffer
MaxAccess == ReplacerK + 1   \* cap on access_count_ (all counts > k behave alike)

Pow2(n) == 2 ^ n

Max(S) == CHOOSE x \in S : \A y \in S : y <= x
Min(S) == CHOOSE x \in S : \A y \in S : x <= y

\* std::list<T>::erase(it), it being the i-th element (1 <= i <= Len(list))
Erase(list, i) == [j \in 1 .. (Len(list) - 1) |-> IF j < i THEN list[j] ELSE list[j + 1]]

\* ------------------------------------------------------------ LRUKReplacer
\* A replacer is a record [replacer_size, k, access_count, is_evictable,
\* history_list, cache_list, curr_size]; lists have their front at index 1.
\* access_count_ and is_evictable_ are maps keyed by frame id (operator[]
\* default-inserts 0 / false), so every id the bounds check lets through has
\* an entry: 0 .. replacer_size.
NewReplacer(num_frames, k) ==
  [replacer_size |-> num_frames, k |-> k,
   access_count |-> [f \in 0 .. num_frames |-> 0],
   is_evictable |-> [f \in 0 .. num_frames |-> FALSE],
   history_list |-> <<>>, cache_list |-> <<>>, curr_size |-> 0]

\* HistoryGetFrame / CacheGetFrame: position of the first element equal to
\* frame_id, 0 for end()
GetFrame(list, frame_id) ==
  LET hits == {i \in 1 .. Len(list) : list[i] = frame_id}
  IN  IF hits = {} THEN 0 ELSE Min(hits)

\* "it = ...GetFrame(frame_id); if (it != end()) erase(it)" of RecordAccess
EraseFrame(list, frame_id) ==
  IF GetFrame(list, frame_id) = 0 THEN list ELSE Erase(list, GetFrame(list, frame_id))

\* the walk of Evict made from the head of the list
LastEvictable_FromHead(list, is_evictable) ==
  LET hits == {i \in 1 .. Len(list) : is_evictable[list[i]]}
  IN  IF hits = {} THEN 0 ELSE Min(hits)

\* the reverse walk of Evict: position of the element nearest the tail that is
\* evictable, 0 when the walk ends without one
LastEvictable(list, is_evictable) ==
  LET hits == {i \in 1 .. Len(list) : is_evictable[list[i]]}
  IN  IF hits = {} THEN 0 ELSE Max(hits)

\* Evict: [ok, frame, rp]
Evict(rp) ==
  LET h == LastEvictable(rp.history_list, rp.is_evictable)
      c == LastEvictable(rp.cache_list, rp.is_evictable)
  IN  IF rp.curr_size = 0 THEN [ok |-> FALSE, frame |-> Null, rp |-> rp]
      ELSE IF h # 0 THEN
        LET frame == rp.history_list[h]
        IN  [ok |-> TRUE, frame |-> frame,
             rp |-> [rp EXCEPT !.access_count[frame] = 0,
                               !.history_list = Erase(@, GetFrame(@, frame)),
                               !.curr_size = @ - 1,
                               !.is_evictable[frame] = FALSE]]
      ELSE IF c # 0 THEN
        LET frame == rp.cache_list[c]
        IN  [ok |-> TRUE, frame |-> frame,
             rp |-> [rp EXCEPT !.access_count[frame] = 0,
                               !.cache_list = Erase(@, GetFrame(@, frame)),
                               !.curr_size = @ - 1,
                               !.is_evictable[frame] = FALSE]]
      ELSE [ok |-> FALSE, frame |-> Null, rp |-> rp]

\* the bounds check shared by RecordAccess, SetEvictable and Remove
OutOfRange(rp, frame_id) == frame_id > rp.replacer_size

\* RecordAccess: the new replacer state (unchanged when the call throws)
RecordAccess(rp, frame_id) ==
  IF OutOfRange(rp, frame_id) THEN rp
  ELSE
    LET n == rp.access_count[frame_id] + 1
        r1 == [rp EXCEPT !.access_count[frame_id] = n]
    IN  IF n = rp.k THEN
          [r1 EXCEPT !.history_list = EraseFrame(@, frame_id),
                     !.cache_list = <<frame_id>> \o @]
        ELSE IF n > rp.k THEN
          [r1 EXCEPT !.cache_list = <<frame_id>> \o EraseFrame(@, frame_id)]
        ELSE
          [r1 EXCEPT !.history_list = <<frame_id>> \o EraseFrame(@, frame_id)]

\* SetEvictable: the new replacer state (unchanged when the call throws)
SetEvictable_AlwaysCounts(rp, frame_id, set_evictable) ==
  IF OutOfRange(rp, frame_id) THEN rp
  ELSE
    LET d == IF set_evictable THEN 1 ELSE -1
    IN  [rp EXCEPT !.curr_size = @ + d, !.is_evictable[frame_id] = set_evictable]

SetEvictable(rp, frame_id, set_evictable) ==
  IF OutOfRange(rp, frame_id) THEN rp
  ELSE
    LET was == rp.is_evictable[frame_id]
        d == IF ~was /\ set_evictable THEN 1
             ELSE IF was /\ ~set_evictable THEN -1 ELSE 0
    IN  [rp EXCEPT !.curr_size = @ + d, !.is_evictable[frame_id] = set_evictable]

\* Remove throws on an id out of range and on a frame that has accesses
\* recorded and is not evictable
RemoveThrows(rp, frame_id) ==
  IF OutOfRange(rp, frame_id) THEN TRUE
  ELSE rp.access_count[frame_id] # 0 /\ ~rp.is_evictable[frame_id]

\* Remove: the new replacer state (unchanged when the call throws)
\* Remove leaving the frame where it is
Remove_Forgotten(rp, frame_id) == rp

Remove(rp, frame_id) ==
  IF RemoveThrows(rp, frame_id) THEN rp
  ELSE IF rp.access_count[frame_id] = 0 THEN rp
  ELSE
    LET r1 == IF rp.access_count[frame_id] >= rp.k
              THEN [rp EXCEPT !.cache_list = Erase(@, GetFrame(@, frame_id))]
              ELSE [rp EXCEPT !.history_list = Erase(@, GetFrame(@, frame_id))]
    IN  [r1 EXCEPT !.curr_size = @ - 1,
                   !.access_count[frame_id] = 0,
                   !.is_evictable[frame_id] = FALSE]

Size(rp) == rp.curr_size

\* ----------------------------------------------------- ExtendibleHashTable
\* A table is a record [global_depth, bucket_size, num_buckets, dir, buckets]:
\* buckets is the sequence of the Bucket objects in their order of creation,
\* each [depth, list] with list a sequence of <<key, value>> pairs; dir[i + 1]
\* is the position in buckets of the bucket slot i refers to (the shared_ptr).
NewTable(bucket_size) ==
  [global_depth |-> 0, bucket_size |-> bucket_size, num_buckets |-> 1,
   dir |-> <<1>>, buckets |-> << [depth |-> 0, list |-> <<>>] >>]

\* std::hash<int> of libstdc++ is the identity
Hash(key) == key

IndexOf(ht, key) == Hash(key) % Pow2(ht.global_depth)

Lowmask(number, n) == number % Pow2(n)

\* the bucket slot `index` refers to
BucketAt(ht, index) == ht.buckets[ht.dir[index + 1]]

IsFull(ht, list) == Len(list) = ht.bucket_size

\* Bucket::Find: the value of the first pair with the key, NotFound otherwise
BucketFind(list, key) ==
  LET hits == {i \in 1 .. Len(list) : list[i][1] = key}
  IN  IF hits = {} THEN NotFound ELSE list[Min(hits)][2]

\* Bucket::Remove erases every pair with the key
BucketRemove(list, key) == SelectSeq(list, LAMBDA kv : kv[1] # key)

\* Bucket::Insert without its first test
BucketInsert_NoFullCheck(ht, list, key, value) ==
  [ok |-> TRUE, hang |-> FALSE, list |-> Append(list, <<key, value>>)]

\* Bucket::Insert: [ok, hang, list].  A full bucket refuses (ok = FALSE).  When
\* the key is present the loop overwrites the value and does not advance the
\* iterator: it never ends (hang = TRUE, with the value already written).
BucketInsert(ht, list, key, value) ==
  LET hits == {i \in 1 .. Len(list) : list[i][1] = key}
  IN  IF IsFull(ht, list) THEN [ok |-> FALSE, hang |-> FALSE, list |-> list]
      ELSE IF hits # {} THEN
        [ok |-> FALSE, hang |-> TRUE,
         list |-> [list EXCEPT ![Min(hits)] = <<key, value>>]]
      ELSE [ok |-> TRUE, hang |-> FALSE, list |-> Append(list, <<key, value>>)]

\* Find and Remove compute "index = IndexOf(key)" in their first line, before
\* latch_.lock(); FindAt and RemoveAt are what they do with it under the latch
FindAt(ht, index, key) == BucketFind(BucketAt(ht, index).list, key)

RemoveAt(ht, index, key) ==
  [ht EXCEPT !.buckets[ht.dir[index + 1]].list = BucketRemove(@, key)]

\* the calls made by one thread: nothing happens between the first line and
\* the lock
Find(ht, key) == FindAt(ht, IndexOf(ht, key), key)

TableRemove(ht, key) == RemoveAt(ht, IndexOf(ht, key), key)

\* the loop of RedistributeBucket as seen by the new bucket: Bucket::Insert of
\* every pair that leaves the old bucket, in the old bucket's order
RECURSIVE MoveItems(_, _, _, _, _)
MoveItems(ht, items, pre_bucket_mask, new_depth, new_list) ==
  IF items = <<>> THEN new_list
  ELSE IF pre_bucket_mask # Lowmask(Hash(Head(items)[1]), new_depth)
    THEN MoveItems(ht, Tail(items), pre_bucket_mask, new_depth,
                   BucketInsert(ht, new_list, Head(items)[1], Head(items)[2]).list)
    ELSE MoveItems(ht, Tail(items), pre_bucket_mask, new_depth, new_list)

\* A bucket's address is not observable: the buckets are kept in the order of
\* the first directory slot that refers to them (every bucket has one).
Renumbered(ht) ==
  LET used == {ht.dir[i] : i \in 1 .. Len(ht.dir)}
      first(b) == Min({i \in 1 .. Len(ht.dir) : ht.dir[i] = b})
      rank(b) == Cardinality({c \in used : first(c) < first(b)}) + 1
      at(r) == CHOOSE b \in used : rank(b) = r
  IN  [ht EXCEPT !.dir = [i \in 1 .. Len(ht.dir) |-> rank(ht.dir[i])],
                 !.buckets = [r \in 1 .. Cardinality(used) |-> ht.buckets[at(r)]]]

\* "bucket->GetItems().begin()->first" of RedistributeBucket: the first key of
\* the bucket.  On an empty bucket begin() is end() and the read is undefined:
\* any key may come out (Garbage); Null stands for a key that is not read.
FirstKey(list) == IF list = <<>> THEN Null ELSE list[1][1]

Garbage == 0 .. (Pow2(MaxDepth) - 1)

\* RedistributeBucket(bucket), bucket being buckets[b] and first_key what
\* "bucket->GetItems().begin()->first" yields
RedistributeBucket(ht, b, first_key) ==
  LET new_depth == ht.buckets[b].depth + 1
      items == ht.buckets[b].list
      pre_bucket_mask == Lowmask(Hash(first_key), new_depth - 1)
      kept == SelectSeq(items,
                LAMBDA kv : pre_bucket_mask = Lowmask(Hash(kv[1]), new_depth))
      new_bucket == [depth |-> new_depth,
                     list |-> MoveItems(ht, items, pre_bucket_mask, new_depth, <<>>)]
      nb == Len(ht.buckets) + 1
  IN  Renumbered([ht EXCEPT
         !.num_buckets = @ + 1,
         !.buckets = Append([@ EXCEPT ![b] = [depth |-> new_depth, list |-> kept]],
                            new_bucket),
         !.dir = [i \in 1 .. Len(@) |->
                    IF /\ Lowmask(i - 1, new_depth - 1) = pre_bucket_mask
                       /\ Lowmask(i - 1, new_depth) # pre_bucket_mask
                    THEN nb ELSE @[i]]])

\* Insert splitting the bucket without ever doubling the directory
InsertAt_NeverDoubles(ht, index0, key, value, first_key) ==
  LET full == IsFull(ht, BucketAt(ht, index0).list)
      grown == ht
      index == IF full THEN IndexOf(grown, key) ELSE index0
      split == IF full THEN RedistributeBucket(grown, grown.dir[index + 1], first_key)
               ELSE ht
      b == split.dir[index + 1]
      r == BucketInsert(split, split.buckets[b].list, key, value)
  IN  [ht |-> [split EXCEPT !.buckets[b].list = r.list], ok |-> r.ok, hang |-> r.hang]

\* ExtendibleHashTable::Insert from latch_.lock() on, index0 being the index of
\* its first line and first_key the key RedistributeBucket reads at the head
\* of the bucket it splits: [ht, ok, hang].  One split at most, then
\* Bucket::Insert, whose result is not looked at: ok = FALSE is a pair that was
\* not stored, hang = TRUE a call that never returns.
InsertAt(ht, index0, key, value, first_key) ==
  LET full == IsFull(ht, BucketAt(ht, index0).list)
      grown == IF full /\ ht.global_depth = BucketAt(ht, index0).depth
               THEN [ht EXCEPT !.dir = @ \o @, !.global_depth = @ + 1]
               ELSE ht
      index == IF full THEN IndexOf(grown, key) ELSE index0
      split == IF full THEN RedistributeBucket(grown, grown.dir[index + 1], first_key)
               ELSE ht
      b == split.dir[index + 1]
      r == BucketInsert(split, split.buckets[b].list, key, value)
  IN  [ht |-> [split EXCEPT !.buckets[b].list = r.list], ok |-> r.ok, hang |-> r.hang]

\* the bucket Insert hands to RedistributeBucket: the one of the slot
\* "index = IndexOf(key)" gives after the doubling, if any
SplitBucket(ht, index0, key) ==
  LET depth == IF IsFull(ht, BucketAt(ht, index0).list)
                  /\ ht.global_depth = BucketAt(ht, index0).depth
               THEN ht.global_depth + 1 ELSE ht.global_depth
  IN  BucketAt(ht, (Hash(key) % Pow2(depth)) % Len(ht.dir))

SplitList(ht, index0, key) == SplitBucket(ht, index0, key).list

\* Insert as one thread makes it: "index = IndexOf(key)" and then the lock; the
\* bucket it splits is the full bucket of the key
Insert(ht, key, value) ==
  InsertAt(ht, IndexOf(ht, key), key, value,
           FirstKey(SplitList(ht, IndexOf(ht, key), key)))

\* ------------------------------------------------ BufferPoolManagerInstance
VARIABLES
  pages_,         \* pages_[f] = [page_id, pin_count, is_dirty, data]
  free_list_,     \* sequence of frame ids, front first
  page_table_,    \* ExtendibleHashTable<page_id_t, frame_id_t>
  replacer_,      \* LRUKReplacer
  next_page_id_,
  disk,           \* the disk manager's pages: disk[p] is what ReadPage(p) yields
  latch,          \* "free", or "hung" once a call never returns (latch_ stays held)
  last,           \* the last call, when it is an observed one: [op, page, flag,
                  \* ret, ok, io]: ret the frame returned (or Null, Hang, Thrown),
                  \* ok the bool returned, io the disk manager calls it made
  observed,       \* the operations whose calls are recorded in last (fixed by Init)
  owed,           \* history: the pages an observed unpin_page(p, true) marked dirty
                  \* since p's last write to disk
  expect,         \* history, kept when the clients' writes are observed: expect[p]
                  \* is the buffer of page p at its last unpin_page(p, true), NoBytes
                  \* once the buffer is written again or p is deleted
  callers,        \* the threads that call the page table directly: callers[t] is
                  \* the call thread t is in and the local variables of that call
  recency         \* history, kept when the replacer's evict calls are observed:
                  \* the frames with recorded accesses, the last accessed first

vars == <<pages_, free_list_, page_table_, replacer_, next_page_id_, disk, latch,
          last, observed, owed, expect, callers, recency>>

NoBytes == -1

\* the history variables after a call that wrote the pages `written` to disk,
\* unpinned the pairs <<page, buffer>> of `promised` dirty, deleted or freshly
\* allocated the pages `dropped`, and after a client rewrote the buffers of the
\* pages `rewritten`
Track(written, promised, dropped, rewritten) ==
  /\ owed' = IF "unpin_page" \in observed
             THEN (owed \ (written \cup dropped)) \cup {pb[1] : pb \in promised}
             ELSE owed
  /\ expect' = IF "write_data" \in observed
               THEN [p \in PageIds |->
                       IF \E pb \in promised : pb[1] = p
                       THEN (CHOOSE pb \in promised : pb[1] = p)[2]
                       ELSE IF p \in dropped \cup rewritten THEN NoBytes
                       ELSE expect[p]]
               ELSE expect

Untracked == Track({}, {}, {}, {})

\* the pages a sequence of disk manager calls writes
Written(io) == {io[i][2] : i \in {j \in 1 .. Len(io) : io[j][1] = "write"}}

NoCall ==
  [op |-> "none", page |-> INVALID_PAGE_ID, flag |-> FALSE, ret |-> Null,
   ok |-> FALSE, io |-> <<>>]

Call(op, page, flag, ret, ok, io) ==
  IF op \in observed
  THEN [op |-> op, page |-> page, flag |-> flag, ret |-> ret, ok |-> ok, io |-> io]
  ELSE NoCall

PoolOps == {"new_page", "fetch_page", "unpin_page", "flush_page", "flush_all",
            "delete_page"}

FrameIds == DOMAIN pages_

\* Page::ResetMemory zeroes the buffer
ResetMemory == 0

\* the constructor, and which calls the run records
InitPool(pool_size, replacer_k, bucket_size, ops) ==
  /\ pages_ = [f \in 0 .. (pool_size - 1) |->
                 [page_id |-> INVALID_PAGE_ID, pin_count |-> 0, is_dirty |-> FALSE,
                  data |-> ResetMemory]]
  /\ free_list_ = [i \in 1 .. pool_size |-> i - 1]
  /\ page_table_ = NewTable(bucket_size)
  /\ replacer_ = NewReplacer(pool_size, replacer_k)
  /\ next_page_id_ = 0
  /\ disk = [p \in PageIds |-> 0]
  /\ latch = "free"
  /\ last = NoCall
  /\ observed = ops
  /\ owed = {}
  /\ expect = [p \in PageIds |-> NoBytes]
  /\ callers = <<>>
  /\ recency = <<>>

Init == InitPool(PoolSize, ReplacerK, BucketSize, PoolOps)

\* FindEmptyFrameid on the current state: [ok, frame, free_list, replacer,
\* page_table, pages, disk, io]
FindEmptyFrameid ==
  LET e == Evict(replacer_)
      f == e.frame
  IN  IF free_list_ # <<>> THEN
        [ok |-> TRUE, frame |-> Head(free_list_), free_list |-> Tail(free_list_),
         replacer |-> replacer_, page_table |-> page_table_, pages |-> pages_,
         disk |-> disk, io |-> <<>>]
      ELSE IF ~e.ok THEN
        [ok |-> FALSE, frame |-> Null, free_list |-> free_list_,
         replacer |-> replacer_, page_table |-> page_table_, pages |-> pages_,
         disk |-> disk, io |-> <<>>]
      ELSE
        [ok |-> TRUE, frame |-> f, free_list |-> free_list_,
         replacer |-> e.rp,
         page_table |-> TableRemove(page_table_, pages_[f].page_id),
         pages |-> [pages_ EXCEPT ![f].page_id = INVALID_PAGE_ID],
         disk |-> IF pages_[f].is_dirty
                  THEN [disk EXCEPT ![pages_[f].page_id] = pages_[f].data]
                  ELSE disk,
         io |-> IF pages_[f].is_dirty
                THEN << <<"write", pages_[f].page_id, pages_[f].data>> >>
                ELSE <<>>]

\* the early return, testing the free list alone
NoFrameAvailable_FreeListOnly == free_list_ = <<>>

\* the early return of NewPgImp and FetchPgImp
NoFrameAvailable == free_list_ = <<>> /\ Size(replacer_) = 0

\* "replacer_->SetEvictable(f, false); replacer_->RecordAccess(f);" of NewPgImp
\* and FetchPgImp, with the pin forgotten
PinFrame_NotCleared(rp, f) == RecordAccess(rp, f)

\* "replacer_->SetEvictable(f, false); replacer_->RecordAccess(f);" of NewPgImp
\* and FetchPgImp
PinFrame(rp, f) == RecordAccess(SetEvictable(rp, f, FALSE), f)

\* the frame a page is installed in by NewPgImp / FetchPgImp
Installed(pages, f, page_id, data) ==
  [pages EXCEPT ![f] = [page_id |-> page_id, pin_count |-> 1, is_dirty |-> FALSE,
                        data |-> data]]

NewPgImp ==
  /\ latch = "free"
  /\ UNCHANGED <<callers, recency>>
  /\ next_page_id_ <= MaxPageId
  /\ LET a == FindEmptyFrameid
         new_page == next_page_id_
         ins == Insert(a.page_table, new_page, a.frame)
     IN  IF NoFrameAvailable \/ ~a.ok THEN
           /\ last' = Call("new_page", INVALID_PAGE_ID, FALSE, Null, FALSE, <<>>)
           /\ Untracked
           /\ UNCHANGED <<pages_, free_list_, page_table_, replacer_, next_page_id_,
                          disk, latch, observed>>
         ELSE
           /\ free_list_' = a.free_list
           /\ disk' = a.disk
           /\ next_page_id_' = next_page_id_ + 1
           /\ Track(Written(a.io), {}, {new_page}, {})
           /\ UNCHANGED observed
           /\ page_table_' = ins.ht
           /\ IF ins.hang THEN
                /\ latch' = "hung"
                /\ pages_' = a.pages
                /\ replacer_' = a.replacer
                /\ last' = Call("new_page", new_page, FALSE, Hang, FALSE, a.io)
              ELSE
                /\ latch' = latch
                /\ pages_' = Installed(a.pages, a.frame, new_page, ResetMemory)
                /\ replacer_' = PinFrame(a.replacer, a.frame)
                /\ last' = Call("new_page", new_page, FALSE, a.frame, TRUE, a.io)

FetchPgImp(page_id) ==
  /\ latch = "free"
  /\ UNCHANGED <<callers, recency>>
  /\ LET get_frame_id == Find(page_table_, page_id)
         a == FindEmptyFrameid
         ins == Insert(a.page_table, page_id, a.frame)
     IN  IF NoFrameAvailable THEN
           /\ last' = Call("fetch_page", page_id, FALSE, Null, FALSE, <<>>)
           /\ Untracked
           /\ UNCHANGED <<pages_, free_list_, page_table_, replacer_, next_page_id_,
                          disk, latch, observed>>
         ELSE IF get_frame_id # NotFound THEN
           /\ pages_[get_frame_id].pin_count < MaxPin
           /\ replacer_.access_count[get_frame_id] < MaxAccess
           /\ pages_' = [pages_ EXCEPT ![get_frame_id].pin_count = @ + 1,
                                       ![get_frame_id].page_id = page_id]
           /\ replacer_' = PinFrame(replacer_, get_frame_id)
           /\ last' = Call("fetch_page", page_id, FALSE, get_frame_id, TRUE, <<>>)
           /\ Untracked
           /\ UNCHANGED <<free_list_, page_table_, next_page_id_, disk, latch, observed>>
         ELSE IF ~a.ok THEN
           /\ last' = Call("fetch_page", page_id, FALSE, Null, FALSE, <<>>)
           /\ Untracked
           /\ UNCHANGED <<pages_, free_list_, page_table_, replacer_, next_page_id_,
                          disk, latch, observed>>
         ELSE
           /\ free_list_' = a.free_list
           /\ disk' = a.disk
           /\ page_table_' = ins.ht
           /\ Track(Written(a.io), {}, {}, {})
           /\ UNCHANGED <<next_page_id_, observed>>
           /\ IF ins.hang THEN
                /\ latch' = "hung"
                /\ pages_' = a.pages
                /\ replacer_' = a.replacer
                /\ last' = Call("fetch_page", page_id, FALSE, Hang, FALSE, a.io)
              ELSE
                /\ latch' = latch
                /\ pages_' = Installed(a.pages, a.frame, page_id, a.disk[page_id])
                /\ replacer_' = PinFrame(a.replacer, a.frame)
                /\ last' = Call("fetch_page", page_id, FALSE, a.frame, TRUE,
                                Append(a.io, <<"read", page_id, a.disk[page_id]>>))

UnpinPgImp(page_id, is_dirty) ==
  /\ latch = "free"
  /\ UNCHANGED <<callers, recency>>
  /\ LET frame_id == Find(page_table_, page_id)
     IN  IF frame_id = NotFound \/ pages_[frame_id].pin_count = 0 THEN
           /\ last' = Call("unpin_page", page_id, is_dirty, Null, FALSE, <<>>)
           /\ Untracked
           /\ UNCHANGED <<pages_, replacer_>>
         ELSE
           /\ pages_' = [pages_ EXCEPT ![frame_id].pin_count = @ - 1,
                                       ![frame_id].is_dirty = is_dirty]
           /\ replacer_' = IF pages_[frame_id].pin_count - 1 = 0
                           THEN SetEvictable(replacer_, frame_id, TRUE)
                           ELSE replacer_
           /\ last' = Call("unpin_page", page_id, is_dirty, Null, TRUE, <<>>)
           /\ Track({}, IF is_dirty /\ page_id < next_page_id_
                        THEN {<<page_id, pages_[frame_id].data>>} ELSE {}, {}, {})
  /\ UNCHANGED <<free_list_, page_table_, next_page_id_, disk, latch, observed>>

FlushPgImp(page_id) ==
  /\ latch = "free"
  /\ UNCHANGED <<callers, recency>>
  /\ LET frame_id == Find(page_table_, page_id)
     IN  IF frame_id = NotFound THEN
           /\ last' = Call("flush_page", page_id, FALSE, Null, FALSE, <<>>)
           /\ Untracked
           /\ UNCHANGED <<pages_, disk>>
         ELSE IF pages_[frame_id].is_dirty THEN
           /\ disk' = [disk EXCEPT ![page_id] = pages_[frame_id].data]
           /\ pages_' = [pages_ EXCEPT ![frame_id].is_dirty = FALSE]
           /\ last' = Call("flush_page", page_id, FALSE, Null, TRUE,
                           << <<"write", page_id, pages_[frame_id].data>> >>)
           /\ Track({page_id}, {}, {}, {})
         ELSE
           /\ last' = Call("flush_page", page_id, FALSE, Null, TRUE, <<>>)
           /\ Untracked
           /\ UNCHANGED <<pages_, disk>>
  /\ UNCHANGED <<free_list_, page_table_, replacer_, next_page_id_, latch, observed>>

\* the frames FlushAllPgsImp writes
ToFlush(f) == pages_[f].is_dirty /\ pages_[f].page_id # INVALID_PAGE_ID

\* the disk manager calls of FlushAllPgsImp from frame i on
RECURSIVE FlushWrites(_)
FlushWrites(i) ==
  IF i \notin FrameIds THEN <<>>
  ELSE (IF ToFlush(i) THEN << <<"write", pages_[i].page_id, pages_[i].data>> >> ELSE <<>>)
       \o FlushWrites(i + 1)

FlushAllPgsImp ==
  /\ latch = "free"
  /\ UNCHANGED <<callers, recency>>
  /\ disk' = [p \in PageIds |->
                LET fs == {f \in FrameIds : ToFlush(f) /\ pages_[f].page_id = p}
                IN  IF fs = {} THEN disk[p] ELSE pages_[Max(fs)].data]
  /\ pages_' = [f \in FrameIds |->
                  IF ToFlush(f) THEN [pages_[f] EXCEPT !.is_dirty = FALSE] ELSE pages_[f]]
  /\ last' = Call("flush_all", INVALID_PAGE_ID, FALSE, Null, TRUE, FlushWrites(0))
  /\ Track(Written(FlushWrites(0)), {}, {}, {})
  /\ UNCHANGED <<free_list_, page_table_, replacer_, next_page_id_, latch, observed>>

DeletePgImp(page_id) ==
  /\ latch = "free"
  /\ UNCHANGED <<callers, recency>>
  /\ LET frame_id == Find(page_table_, page_id)
     IN  IF frame_id = NotFound THEN
           /\ last' = Call("delete_page", page_id, FALSE, Null, TRUE, <<>>)
           /\ Untracked
           /\ UNCHANGED <<pages_, free_list_, page_table_, replacer_>>
         ELSE IF pages_[frame_id].pin_count > 0 THEN
           /\ last' = Call("delete_page", page_id, FALSE, Null, FALSE, <<>>)
           /\ Untracked
           /\ UNCHANGED <<pages_, free_list_, page_table_, replacer_>>
         ELSE IF RemoveThrows(replacer_, frame_id) THEN
           /\ page_table_' = TableRemove(page_table_, page_id)
           /\ last' = Call("delete_page", page_id, FALSE, Thrown, FALSE, <<>>)
           /\ Untracked
           /\ UNCHANGED <<pages_, free_list_, replacer_>>
         ELSE
           /\ page_table_' = TableRemove(page_table_, page_id)
           /\ replacer_' = Remove(replacer_, frame_id)
           /\ pages_' = [pages_ EXCEPT ![frame_id] =
                           [page_id |-> INVALID_PAGE_ID, pin_count |-> 0,
                            is_dirty |-> FALSE, data |-> ResetMemory]]
           /\ free_list_' = Append(free_list_, frame_id)
           /\ last' = Call("delete_page", page_id, FALSE, Null, TRUE,
                           << <<"deallocate", page_id>> >>)
           /\ Track({}, {}, {page_id}, {})
  /\ UNCHANGED <<next_page_id_, disk, latch, observed>>

\* A client that holds a pin on a page writes its buffer through the handle
WriteData(f, b) ==
  /\ latch = "free"
  /\ UNCHANGED <<callers, recency>>
  /\ pages_[f].pin_count > 0
  /\ pages_[f].data # b
  /\ pages_' = [pages_ EXCEPT ![f].data = b]
  /\ last' = Call("write_data", pages_[f].page_id, FALSE, f, TRUE, <<>>)
  /\ Track({}, {}, {}, {pages_[f].page_id})
  /\ UNCHANGED <<free_list_, page_table_, replacer_, next_page_id_, disk, latch,
                 observed>>

Next ==
  \/ NewPgImp
  \/ \E p \in PageIds : FetchPgImp(p)
  \/ \E p \in PageIds, d \in BOOLEAN : UnpinPgImp(p, d)
  \/ \E p \in PageIds : FlushPgImp(p)
  \/ FlushAllPgsImp
  \/ \E p \in PageIds : DeletePgImp(p)

Spec == Init /\ [][Next]_vars

\* the same pool, recording no call, the calls of NewPgImp and FetchPgImp, the
\* calls of DeletePgImp
QuietSpec == InitPool(PoolSize, ReplacerK, BucketSize, {}) /\ [][Next]_vars

AllocSpec ==
  InitPool(PoolSize, ReplacerK, BucketSize, {"new_page", "fetch_page"}) /\ [][Next]_vars

DeleteSpec == InitPool(PoolSize, ReplacerK, BucketSize, {"delete_page"}) /\ [][Next]_vars

\* a pool with one frame more
WideSpec == InitPool(PoolSize + 1, ReplacerK, BucketSize, {}) /\ [][Next]_vars

\* the pool with clients that write the buffers of the pages they hold
NextData ==
  \/ Next
  \/ \E f \in FrameIds, b \in Bytes : WriteData(f, b)

DataSpec ==
  InitPool(PoolSize, ReplacerK, BucketSize, {"fetch_page", "write_data"})
    /\ [][NextData]_vars

\* ------------------------------------------- the replacer, called directly
\* LRUKReplacer(num_frames, k) on its own; the pool has no frame
InitReplacer(num_frames, k, ops) ==
  /\ pages_ = [f \in {} |-> 0]
  /\ free_list_ = <<>>
  /\ page_table_ = NewTable(BucketSize)
  /\ replacer_ = NewReplacer(num_frames, k)
  /\ next_page_id_ = 0
  /\ disk = [p \in PageIds |-> 0]
  /\ latch = "free"
  /\ last = NoCall
  /\ observed = ops
  /\ owed = {}
  /\ expect = [p \in PageIds |-> NoBytes]
  /\ callers = <<>>
  /\ recency = <<>>

PoolUnchanged ==
  UNCHANGED <<pages_, free_list_, page_table_, next_page_id_, disk, latch, observed,
              owed, expect, callers>>

\* the recency order after a call: the frames the call accessed first, then the
\* others that still have accesses recorded
Recency(came) ==
  recency' = IF "evict" \in observed
             THEN (IF came = {} THEN <<>> ELSE <<CHOOSE f \in came : TRUE>>)
                  \o SelectSeq(recency,
                        LAMBDA f : f \notin came /\ replacer_'.access_count[f] > 0)
             ELSE recency

\* the frame ids the clients pass: those in range and the first one past the
\* bounds check
CallerIds == 0 .. (replacer_.replacer_size + 1)

RecordAccessCall(frame_id) ==
  /\ IF OutOfRange(replacer_, frame_id) THEN TRUE
     ELSE replacer_.access_count[frame_id] < MaxAccess
  /\ replacer_' = RecordAccess(replacer_, frame_id)
  /\ last' = Call("record_access", frame_id, FALSE,
                  IF OutOfRange(replacer_, frame_id) THEN Thrown ELSE Null, FALSE, <<>>)
  /\ Recency(IF OutOfRange(replacer_, frame_id) THEN {} ELSE {frame_id})
  /\ PoolUnchanged

\* the call returns nothing; the record keeps what Size() gave before it
SetEvictableCall(frame_id, set_evictable) ==
  /\ replacer_' = SetEvictable(replacer_, frame_id, set_evictable)
  /\ last' = Call("set_evictable", frame_id, set_evictable,
                  IF OutOfRange(replacer_, frame_id) THEN Thrown ELSE Size(replacer_),
                  FALSE, <<>>)
  /\ Recency({})
  /\ PoolUnchanged

\* evict(&frame_id): the frame and the bool returned; the record's flag says
\* that the victim had k accesses or more
EvictCall ==
  /\ replacer_' = Evict(replacer_).rp
  /\ last' = Call("evict", INVALID_PAGE_ID,
                  IF Evict(replacer_).ok
                  THEN replacer_.access_count[Evict(replacer_).frame] >= replacer_.k
                  ELSE FALSE,
                  Evict(replacer_).frame, Evict(replacer_).ok, <<>>)
  /\ Recency({})
  /\ PoolUnchanged

RemoveCall(frame_id) ==
  /\ replacer_' = Remove(replacer_, frame_id)
  /\ last' = Call("remove", frame_id, FALSE,
                  IF RemoveThrows(replacer_, frame_id) THEN Thrown ELSE Null, FALSE, <<>>)
  /\ Recency({})
  /\ PoolUnchanged

ReplacerNext ==
  \/ \E f \in CallerIds : RecordAccessCall(f)
  \/ \E f \in CallerIds, b \in BOOLEAN : SetEvictableCall(f, b)
  \/ EvictCall
  \/ \E f \in CallerIds : RemoveCall(f)

ReplacerSpec ==
  InitReplacer(PoolSize + 1, ReplacerK, {"set_evictable"}) /\ [][ReplacerNext]_vars

\* the replacer with its evict calls recorded, and the recency order kept
EvictSpec == InitReplacer(PoolSize + 1, ReplacerK, {"evict"}) /\ [][ReplacerNext]_vars

\* the replacer with the calls that take a frame id recorded
FrameIdSpec ==
  InitReplacer(PoolSize + 1, ReplacerK, {"record_access", "set_evictable", "remove"})
    /\ [][ReplacerNext]_vars

\* ---------------------------------------- the page table, called directly
\* ExtendibleHashTable<K, V>(bucket_size) on its own, one call at a time; the
\* pool's variables stay empty.  The keys are PageIds, the values Values.
Values == {0, 1}

InitTable(bucket_size, ops) ==
  /\ pages_ = [f \in {} |-> 0]
  /\ free_list_ = <<>>
  /\ page_table_ = NewTable(bucket_size)
  /\ replacer_ = NewReplacer(0, ReplacerK)
  /\ next_page_id_ = 0
  /\ disk = [p \in PageIds |-> 0]
  /\ latch = "free"
  /\ last = NoCall
  /\ observed = ops
  /\ owed = {}
  /\ expect = [p \in PageIds |-> NoBytes]
  /\ callers = <<>>
  /\ recency = <<>>

TableUnchanged ==
  UNCHANGED <<pages_, free_list_, replacer_, next_page_id_, disk, observed, owed,
              expect, recency>>

\* Insert doubles the directory: the bucket of the key is full and as deep as
\* the directory
Doubles(ht, index) ==
  IsFull(ht, BucketAt(ht, index).list) /\ ht.global_depth = BucketAt(ht, index).depth

\* insert(key, value); a call that never returns keeps latch_
InsertCall(key, value) ==
  /\ latch = "free"
  /\ Doubles(page_table_, IndexOf(page_table_, key))
       => page_table_.global_depth < MaxDepth
  /\ LET r == Insert(page_table_, key, value)
     IN  /\ page_table_' = r.ht
         /\ latch' = IF r.hang THEN "hung" ELSE latch
         /\ last' = Call("insert", key, FALSE, IF r.hang THEN Hang ELSE value,
                         ~r.hang, <<>>)
  /\ UNCHANGED callers
  /\ TableUnchanged

\* find(key, value): the value found, and the bool returned
FindCall(key) ==
  /\ latch = "free"
  /\ last' = Call("find", key, FALSE, Find(page_table_, key),
                  Find(page_table_, key) # NotFound, <<>>)
  /\ UNCHANGED <<page_table_, latch, callers>>
  /\ TableUnchanged

\* remove(key), and the bool returned
TableRemoveCall(key) ==
  /\ latch = "free"
  /\ page_table_' = TableRemove(page_table_, key)
  /\ last' = Call("remove", key, FALSE, Null, Find(page_table_, key) # NotFound, <<>>)
  /\ UNCHANGED <<latch, callers>>
  /\ TableUnchanged

TableNext ==
  \/ \E k \in PageIds, v \in Values : InsertCall(k, v)
  \/ \E k \in PageIds : FindCall(k)
  \/ \E k \in PageIds : TableRemoveCall(k)

\* a table of bucket_size_ BucketSize
TableSpec == InitTable(BucketSize, {"insert"}) /\ [][TableNext]_vars

\* a table whose buckets hold one pair more
RoomySpec == InitTable(BucketSize + 1, {"insert"}) /\ [][TableNext]_vars

\* ------------------------------- the page table, called by several threads
\* Find, Insert and Remove run "size_t index = IndexOf(key);" before
\* latch_.lock(): a call is two steps, Enter (the index is computed, from the
\* global_depth_ of that moment) and Locked (the rest, under the latch).
Threads == 1 .. NumThreads

\* the keys the threads use: two keys that share the one slot of a directory of
\* depth 0 and part when it doubles; and the cap on the depths
ThreadKeys == {0, 1}
ThreadDepth == MaxDepth - 1

Idle == [pc |-> "idle", op |-> "none", key |-> 0, value |-> 0, index |-> 0, seen |-> {}]

\* history: a find in flight collects what a find of its key would have
\* returned at each moment since it was called
Seen(callers_, ht, done) ==
  [t \in Threads |->
     IF t = done THEN Idle
     ELSE IF callers_[t].op = "find"
       THEN [callers_[t] EXCEPT !.seen = @ \cup {Find(ht, callers_[t].key)}]
       ELSE callers_[t]]

InitThreads(bucket_size, ops) ==
  /\ pages_ = [f \in {} |-> 0]
  /\ free_list_ = <<>>
  /\ page_table_ = NewTable(bucket_size)
  /\ replacer_ = NewReplacer(0, ReplacerK)
  /\ next_page_id_ = 0
  /\ disk = [p \in PageIds |-> 0]
  /\ latch = "free"
  /\ last = NoCall
  /\ observed = ops
  /\ owed = {}
  /\ expect = [p \in PageIds |-> NoBytes]
  /\ callers = [t \in Threads |-> Idle]
  /\ recency = <<>>

\* the first line of Find, Insert and Remove
Enter(t, op, key, value) ==
  /\ callers[t].pc = "idle"
  /\ callers' = [callers EXCEPT ![t] =
                   [pc |-> "indexed", op |-> op, key |-> key, value |-> value,
                    index |-> IndexOf(page_table_, key),
                    seen |-> IF op = "find" THEN {Find(page_table_, key)} ELSE {}]]
  /\ UNCHANGED <<page_table_, latch, last>>
  /\ TableUnchanged

\* Find from latch_.lock() to its return
LockedFind(t) ==
  LET c == callers[t]
  IN  /\ c.pc = "indexed" /\ c.op = "find"
      /\ latch = "free"
      /\ last' = Call("find", c.key, FALSE, FindAt(page_table_, c.index, c.key),
                      FindAt(page_table_, c.index, c.key) # NotFound, <<>>)
      /\ callers' = Seen(callers, page_table_, t)
      /\ UNCHANGED <<page_table_, latch>>
      /\ TableUnchanged

\* Remove from latch_.lock() to its return
LockedRemove(t) ==
  LET c == callers[t]
  IN  /\ c.pc = "indexed" /\ c.op = "remove"
      /\ latch = "free"
      /\ page_table_' = RemoveAt(page_table_, c.index, c.key)
      /\ last' = Call("remove", c.key, FALSE, Null,
                      FindAt(page_table_, c.index, c.key) # NotFound, <<>>)
      /\ callers' = Seen(callers, page_table_', t)
      /\ UNCHANGED latch
      /\ TableUnchanged

\* Insert from latch_.lock() on; a call that never returns keeps latch_
\* the keys RedistributeBucket may read at the head of the bucket it splits:
\* with an index taken before another thread's split, the bucket of the slot
\* computed again under the latch may be empty
FirstKeys(ht, index0, key) ==
  IF IsFull(ht, BucketAt(ht, index0).list) /\ SplitList(ht, index0, key) = <<>>
  THEN Garbage
  ELSE {FirstKey(SplitList(ht, index0, key))}

LockedInsert(t) ==
  LET c == callers[t]
  IN  /\ c.pc = "indexed" /\ c.op = "insert"
      /\ latch = "free"
      /\ Doubles(page_table_, c.index) => page_table_.global_depth < ThreadDepth
      /\ IsFull(page_table_, BucketAt(page_table_, c.index).list)
           => SplitBucket(page_table_, c.index, c.key).depth < ThreadDepth
      /\ \E first_key \in FirstKeys(page_table_, c.index, c.key) :
           LET r == InsertAt(page_table_, c.index, c.key, c.value, first_key)
           IN  /\ page_table_' = r.ht
               /\ latch' = IF r.hang THEN "hung" ELSE latch
               /\ last' = Call("insert", c.key, FALSE,
                               IF r.hang THEN Hang ELSE c.value, ~r.hang, <<>>)
               /\ callers' = Seen(callers, r.ht, IF r.hang THEN 0 ELSE t)
      /\ TableUnchanged

ThreadsNext ==
  \/ \E t \in Threads, k \in ThreadKeys : Enter(t, "find", k, 0)
  \/ \E t \in Threads, k \in ThreadKeys : Enter(t, "remove", k, 0)
  \/ \E t \in Threads, k \in ThreadKeys, v \in Values : Enter(t, "insert", k, v)
  \/ \E t \in Threads : LockedFind(t)
  \/ \E t \in Threads : LockedRemove(t)
  \/ \E t \in Threads : LockedInsert(t)

ThreadsSpec == InitThreads(BucketSize, {"find"}) /\ [][ThreadsNext]_vars

\* ------------------------------------------------------------------ claims
InFreeList(f) == \E i \in 1 .. Len(free_list_) : free_list_[i] = f

Evictable(f) == replacer_.is_evictable[f]

C1_PinnedInv ==
  \A f \in FrameIds : pages_[f].pin_count > 0 => ~InFreeList(f) /\ ~Evictable(f)

C1_PinnedStep ==
  \A f \in FrameIds :
    pages_[f].pin_count > 0 /\ pages_[f].page_id # INVALID_PAGE_ID
      => pages_'[f].page_id = pages_[f].page_id

Called(op) == last'.op = op

\* a disk manager call of the step
DidIo(call) == \E i \in 1 .. Len(last'.io) : last'.io[i] = call

C2_OwedStep ==
  \A f \in FrameIds :
    LET p == pages_[f].page_id
    IN  /\ p # INVALID_PAGE_ID /\ p \in owed
        /\ pages_'[f].page_id # p /\ pages_'[f].page_id # INVALID_PAGE_ID
        => DidIo(<<"write", p, pages_[f].data>>)

\* C2: a page that an unpin_page(p, true) marked dirty since its last write to
\* disk is written to disk, with its frame's buffer, by the step that takes its
\* frame away from it.
C2_DirtyWrittenBeforeReassigned == [][C2_OwedStep]_vars

C3_FetchStep ==
  Called("fetch_page") /\ last'.ret >= 0 /\ expect[last'.page] # NoBytes
    => pages_'[last'.ret].data = expect[last'.page]

\* C3: a successful fetch_page(p) returns the bytes the client left in the
\* buffer at unpin_page(p, true), p being a page new_page returned, as long as
\* the buffer is not written again and p is not deleted.
C3_RoundTrip == [][C3_FetchStep]_vars

\* the frame's place in the replacer's lists
AtFront(rp, f) ==
  \/ rp.history_list # <<>> /\ Head(rp.history_list) = f
  \/ rp.cache_list # <<>> /\ Head(rp.cache_list) = f

C4_HitStep ==
  \A p \in PageIds :
    LET f == Find(page_table_, p)
    IN  Called("fetch_page") /\ last'.page = p /\ f # NotFound
          => /\ last'.ret = f
             /\ pages_'[f].pin_count = pages_[f].pin_count + 1
             /\ ~replacer_'.is_evictable[f]
             /\ replacer_'.access_count[f] = replacer_.access_count[f] + 1
             /\ AtFront(replacer_', f)
             /\ last'.io = <<>>

\* C4: fetch_page(p) of a page that is in the index returns p's frame, adds
\* one to its pin_count, marks it non-evictable, records an access and reads
\* nothing from disk, whatever the free list and the evictable count are.
C4_FetchHitSucceeds == [][C4_HitStep]_vars

C5_FirstStep ==
  Called("fetch_page") /\ last'.ret >= 0
    => LET f == last'.ret
           before == IF Find(page_table_, last'.page) = f THEN pages_[f].pin_count ELSE 0
       IN  /\ pages_'[f].pin_count = before + 1
           /\ Find(page_table_', last'.page) = f

C5_SecondStep ==
  last.op = "fetch_page" /\ last.ret >= 0 /\ Called("fetch_page") /\ last'.page = last.page
    => /\ last'.ret = last.ret
       /\ last'.io = <<>>
       /\ pages_'[last.ret].pin_count = pages_[last.ret].pin_count + 1

\* C5: two fetch_page(p) calls that take the pool mutex one after the other,
\* the first succeeding: the second returns the same frame, sees the index
\* hit (no disk read, the mapping is the first one's) and the pin_count goes
\* up by one in each (by two over both calls).
C5_ConcurrentFetchesShareFrame == [][C5_FirstStep /\ C5_SecondStep]_vars

\* the pairs the page table stores: <<bucket, position>>
Entries(ht) ==
  {bi \in (1 .. Len(ht.buckets)) \X (1 .. ht.bucket_size) :
     bi[2] <= Len(ht.buckets[bi[1]].list)}

EntryAt(ht, bi) == ht.buckets[bi[1]].list[bi[2]]

\* between two calls of the pool (no call is inside the pool)
AtApiBoundary == latch = "free"

\* C6: every index entry (p -> f) has frames[f].page_id = p, no page has two
\* index entries, and no two frames hold the same page id.
C6_IndexMatchesFrames ==
  AtApiBoundary =>
    /\ \A bi \in Entries(page_table_) :
         LET kv == EntryAt(page_table_, bi)
         IN  kv[2] \in FrameIds /\ pages_[kv[2]].page_id = kv[1]
    /\ \A bi, bj \in Entries(page_table_) :
         EntryAt(page_table_, bi)[1] = EntryAt(page_table_, bj)[1] => bi = bj
    /\ \A f, g \in FrameIds :
         f # g /\ pages_[f].page_id = pages_[g].page_id
           => pages_[f].page_id = INVALID_PAGE_ID

\* C7: every frame is in the free list, or holds a page that the index maps
\* to it.
C7_NoFrameLeaked ==
  AtApiBoundary =>
    \A f \in FrameIds :
      \/ InFreeList(f)
      \/ /\ pages_[f].page_id # INVALID_PAGE_ID
         /\ Find(page_table_, pages_[f].page_id) = f

\* the frame ids the replacer keeps a flag for
Tracked(rp) == DOMAIN rp.is_evictable

C8_SizeInv ==
  Size(replacer_) = Cardinality({f \in Tracked(replacer_) : replacer_.is_evictable[f]})

C8_SameFlagStep ==
  /\ Called("set_evictable")
  /\ last'.page \in Tracked(replacer_)
  /\ replacer_.is_evictable[last'.page] = last'.flag
  => replacer_' = replacer_

\* C8: size() is the number of frames whose is_evictable flag is true, and
\* set_evictable with the flag the frame already has changes nothing.
C8_SizeCountsEvictable == [](C8_SizeInv) /\ [][C8_SameFlagStep]_vars

\* set_evictable(f, true) on a frame that was evictable already, with two
\* evictable frames, one of them holding k accesses in the cache list
C8_Witness ==
  /\ last.op = "set_evictable" /\ last.flag
  /\ last.page \in Tracked(replacer_)
  /\ last.ret = Size(replacer_)
  /\ Size(replacer_) = 2
  /\ replacer_.cache_list # <<>>

\* what a call that changes nothing leaves alone: frames, free list, index,
\* replacer, next page id and the disk
PoolStateUnchanged ==
  UNCHANGED <<pages_, free_list_, page_table_, replacer_, next_page_id_, disk, latch>>

NoEvictableFrame == \A f \in Tracked(replacer_) : ~replacer_.is_evictable[f]

NeedsFrame ==
  \/ Called("new_page")
  \/ Called("fetch_page") /\ Find(page_table_, last'.page) = NotFound

C9_FailStep ==
  NeedsFrame =>
    /\ (~last'.ok /\ last'.ret = Null) <=> (free_list_ = <<>> /\ NoEvictableFrame)
    /\ last'.ret = Null => PoolStateUnchanged /\ last'.io = <<>>

\* C9: new_page, and fetch_page of a page with no index entry, fail exactly when
\* the free list is empty and no frame is evictable in the replacer, and a failed
\* call changes nothing of the pool (frames, free list, index, replacer,
\* next_page_id) and calls the disk manager not at all.
C9_FailsExactlyWhenExhausted == [][C9_FailStep]_vars

\* fetch_page of an unmapped page has failed on a pool whose frames are all
\* pinned, after a page id was allocated
C9_Witness ==
  /\ last.op = "fetch_page" /\ last.ret = Null /\ ~last.ok
  /\ Find(page_table_, last.page) = NotFound
  /\ free_list_ = <<>>
  /\ \A f \in FrameIds : pages_[f].pin_count > 0
  /\ next_page_id_ > 0

InList(list, f) == \E i \in 1 .. Len(list) : list[i] = f

C10_DeleteStep ==
  Called("delete_page") =>
    LET p == last'.page
        f == Find(page_table_, p)
    IN  IF f = NotFound THEN
          last'.ok /\ PoolStateUnchanged /\ last'.io = <<>>
        ELSE IF pages_[f].pin_count > 0 THEN
          ~last'.ok /\ last'.ret = Null /\ PoolStateUnchanged /\ last'.io = <<>>
        ELSE
          /\ last'.ok /\ last'.ret = Null
          /\ Find(page_table_', p) = NotFound
          /\ InList(free_list_', f)
          /\ pages_'[f].page_id = INVALID_PAGE_ID
          /\ pages_'[f].pin_count = 0
          /\ ~pages_'[f].is_dirty
          /\ ~InList(replacer_'.history_list, f)
          /\ ~InList(replacer_'.cache_list, f)
          /\ ~replacer_'.is_evictable[f]
          /\ DidIo(<<"deallocate", p>>)

\* C10: delete_page(p) returns true and changes nothing when p has no index
\* entry, returns false and changes nothing when p is pinned, and otherwise
\* returns true with p out of the index, its frame in the free list with page_id
\* INVALID, pin_count 0 and is_dirty false, the frame in neither replacer list
\* and not evictable, and deallocate_page(p) called.
C10_DeletePage == [][C10_DeleteStep]_vars

\* a delete_page that freed the frame of an allocated page
C10_Witness ==
  /\ last.op = "delete_page" /\ last.ok
  /\ last.io = << <<"deallocate", last.page>> >>
  /\ last.page < next_page_id_
  /\ free_list_ # <<>>

\* the pairs of a table, all buckets together
Stored(ht) == {EntryAt(ht, bi) : bi \in Entries(ht)}

C11_InsertStep ==
  Called("insert") /\ last'.ok => Find(page_table_', last'.page) = last'.ret

\* C11: after insert(k, v) returns, find(k) returns v, whatever the keys
\* inserted before; also when the bucket of k is full and stays full after one
\* split.
C11_InsertThenFind == [][C11_InsertStep]_vars

\* C12: the directory has 2^global_depth slots and every slot refers to a
\* bucket whose local depth is at most global_depth.
C12_DirectoryShape ==
  /\ Len(page_table_.dir) = Pow2(page_table_.global_depth)
  /\ \A i \in 1 .. Len(page_table_.dir) :
       /\ page_table_.dir[i] \in 1 .. Len(page_table_.buckets)
       /\ page_table_.buckets[page_table_.dir[i]].depth <= page_table_.global_depth

\* a directory doubled twice with a bucket shallower than the directory and a
\* bucket as deep as it
C12_Witness ==
  /\ page_table_.global_depth = 2
  /\ \E i, j \in 1 .. Len(page_table_.dir) :
       /\ page_table_.buckets[page_table_.dir[i]].depth < 2
       /\ page_table_.buckets[page_table_.dir[j]].depth = 2
       /\ page_table_.buckets[page_table_.dir[j]].list # <<>>

C17_UpsertStep ==
  Called("insert") /\ Find(page_table_, last'.page) # NotFound
    => /\ last'.ok /\ last'.ret # Hang
       /\ latch' = "free"
       /\ Find(page_table_', last'.page) = last'.ret
       /\ Cardinality(Entries(page_table_')) = Cardinality(Entries(page_table_))

\* C17: insert(k, v) with k present in its bucket returns, with the value of k
\* overwritten, the number of entries unchanged and the table's mutex free.
C17_UpsertTerminates == [][C17_UpsertStep]_vars

\* C20: between calls every stored key is in the bucket its directory slot
\* (the low global_depth bits of its hash) refers to, no key is stored twice,
\* no bucket holds more than bucket_size pairs, and find finds every stored key.
C20_KeysWhereFindLooks ==
  AtApiBoundary =>
    /\ \A b \in 1 .. Len(page_table_.buckets) :
         /\ Len(page_table_.buckets[b].list) <= page_table_.bucket_size
         /\ \A i \in 1 .. Len(page_table_.buckets[b].list) :
              LET key == page_table_.buckets[b].list[i][1]
              IN  /\ page_table_.dir[IndexOf(page_table_, key) + 1] = b
                  /\ Find(page_table_, key) = page_table_.buckets[b].list[i][2]
    /\ \A bi, bj \in Entries(page_table_) :
         EntryAt(page_table_, bi)[1] = EntryAt(page_table_, bj)[1] => bi = bj

\* two keys stored in two buckets of a directory doubled twice
C20_Witness ==
  /\ AtApiBoundary
  /\ page_table_.global_depth = 2
  /\ Cardinality(Stored(page_table_)) = 2
  /\ \E bi, bj \in Entries(page_table_) : bi[1] # bj[1]

\* the evictable frames with fewer than k accesses, one at least, and those
\* with k or more
YoungEvictable(rp) ==
  {f \in Tracked(rp) : rp.is_evictable[f] /\ 0 < rp.access_count[f] /\ rp.access_count[f] < rp.k}

OldEvictable(rp) ==
  {f \in Tracked(rp) : rp.is_evictable[f] /\ rp.access_count[f] >= rp.k}

\* position of a frame in the recency order (1: the last accessed)
Age(f) == CHOOSE i \in 1 .. Len(recency) : recency[i] = f

\* f was accessed before every other frame of the class
Oldest(f, class) == f \in class /\ \A g \in class : Age(g) <= Age(f)

Without(list, f) == SelectSeq(list, LAMBDA x : x # f)

C13_EvictStep ==
  Called("evict") /\ last'.ok =>
    LET v == last'.ret
    IN  /\ IF YoungEvictable(replacer_) # {}
           THEN Oldest(v, YoungEvictable(replacer_))
           ELSE Oldest(v, OldEvictable(replacer_))
        /\ replacer_'.history_list = Without(replacer_.history_list, v)
        /\ replacer_'.cache_list = Without(replacer_.cache_list, v)
        /\ ~InList(replacer_'.history_list, v) /\ ~InList(replacer_'.cache_list, v)
        /\ replacer_'.access_count = [replacer_.access_count EXCEPT ![v] = 0]
        /\ replacer_'.is_evictable = [replacer_.is_evictable EXCEPT ![v] = FALSE]
        /\ Size(replacer_') = Size(replacer_) - 1

\* C13: a successful evict returns the evictable frame with fewer than k
\* accesses that was accessed longest ago if there is one, otherwise the
\* evictable frame with k accesses or more that was accessed longest ago; the
\* victim leaves its list, its access_count is 0, it is not evictable, size() is
\* one lower and nothing else of the replacer changes.
C13_EvictByLruK == [][C13_EvictStep]_vars

\* evict took a frame with k accesses while a pinned frame waits in the
\* history list and another evictable frame is left
C13_Witness ==
  /\ last.op = "evict" /\ last.ok /\ last.flag
  /\ replacer_.history_list # <<>>
  /\ Size(replacer_) >= 1
  /\ Len(recency) >= 2

C14_YoungStep ==
  /\ Called("evict")
  /\ \E f \in Tracked(replacer_) :
       replacer_.is_evictable[f] /\ replacer_.access_count[f] < replacer_.k
  => /\ last'.ok
     /\ last'.ret \in Tracked(replacer_)
     /\ replacer_.is_evictable[last'.ret]
     /\ replacer_.access_count[last'.ret] < replacer_.k

\* C14: when an evictable frame has fewer than k accesses, evict returns an
\* evictable frame with fewer than k accesses.
C14_EvictPrefersYoung == [][C14_YoungStep]_vars

C15_BoundsStep ==
  /\ Called("record_access") \/ Called("set_evictable") \/ Called("remove")
  /\ last'.page >= replacer_.replacer_size
  => last'.ret = Thrown /\ replacer_' = replacer_

\* C15: record_access, set_evictable and remove called with a frame id >=
\* capacity (capacity itself included) end in the fatal error and leave the
\* replacer as it was.
C15_FrameIdChecked == [][C15_BoundsStep]_vars

C19_SizeStep == Called("evict") => (last'.ok <=> Size(replacer_) > 0)

\* C19: evict succeeds whenever size() > 0 and fails only when size() is 0.
C19_EvictSucceedsIffSized == [][C19_SizeStep]_vars

C16_UnpinStep ==
  Called("unpin_page") /\ last'.ok =>
    LET f == Find(page_table_, last'.page)
    IN  pages_'[f].is_dirty = (pages_[f].is_dirty \/ last'.flag)

\* C16: a successful unpin_page(p, is_dirty) leaves the frame's dirty flag at
\* (the flag before OR is_dirty): a dirty frame stays dirty under
\* unpin_page(p, false).
C16_UnpinKeepsDirty == [][C16_UnpinStep]_vars

C18_FindStep ==
  \A t \in Threads :
    callers[t].pc = "indexed" /\ callers[t].op = "find" /\ callers'[t].pc = "idle"
      => last'.ret \in callers[t].seen

\* C18: calls made by several threads are equivalent to the calls in some
\* sequential order: a find(k) returns what k was mapped to (or that it was
\* absent) at some moment between its call and its return, so a find(k) of a
\* key that is stored all along finds it, also while an insert doubles the
\* directory or splits k's bucket.
C18_FindLinearizable == [][C18_FindStep]_vars
====
